---- MODULE Spec2Model ----
(***************************************************************************)
(* Model of shell_ai/main.py: the suggestion / selection / confirmation /  *)
(* execution loop of main(), with get_suggestions() as a pure operator.    *)
(* The control position pc names the wait point main() is blocked at.      *)
(***************************************************************************)
EXTENDS Integers, Sequences, FiniteSets, TLC

\* ------------------------------------------------------------------ bounds
MaxArgs == 2        \* command-line words after the program name
MaxMsgs == 1        \* messages in response.generations[0]
MaxRounds == 2      \* iterations of the while-loop that are explored

\* ------------------------------------------------------- SelectSystemOptions
OPT_GEN_SUGGESTIONS == "Generate new suggestions"
OPT_DISMISS == "Dismiss"
OPT_NEW_COMMAND == "Enter a new command"

TEXT_EDITORS == {"vi", "vim", "emacs", "nano", "ed", "micro", "joe", "nvim"}

\* ------------------------------------------------------------ input domains
\* Words that can follow the program name on the command line.
ArgWords == {"ls", "--ctx", "-la"}
\* Values of the CTX environment setting (any string; default "False").
CtxEnvValues == {"False", "True", "true"}
\* Lines the user can type at an input() prompt.
PromptInputs == {"files"}
\* Texts the user can leave in the confirmation box besides the default.
ConfirmTexts == {"vim f", "virsh"}
\* Captured standard output of a command.
Outputs == {"", "out"}
\* Exceptions of subprocess.run(..., check=True).
RunErrors == {"CalledProcessError", "OSError"}

\* Message contents the model can return.  A TLA+ string cannot hold a
\* backtick: the three-backtick fence of a code block is written <fence>.
M_OBJ_LS == "{\"command\": \"ls\"}"
M_FENCED_LS == "<fence>json\n{\"command\": \"ls\"}\n<fence>"
M_OBJ_EMPTY == "{\"command\": \"\"}"
M_OBJ_NOCMD == "{}"
M_ARRAY == "[\"ls\"]"
M_FENCED_TEXT == "<fence>\nls\n<fence>"
M_TEXT_CD == "cd x"
M_TEXT_DISMISS == "Dismiss"
M_EMPTY == ""

MsgTexts ==
  {M_OBJ_LS, M_FENCED_LS, M_OBJ_EMPTY, M_OBJ_NOCMD, M_ARRAY,
   M_FENCED_TEXT, M_TEXT_CD, M_TEXT_DISMISS, M_EMPTY}

\* ------------------------------------------------------------------ helpers
Range(s) == {s[i] : i \in 1..Len(s)}

SeqsUpTo(S, n) == UNION {[1..k -> S] : k \in 0..n}

\* list(set(xs)): the elements of xs once each, in an order Python does not
\* define.
ListsOfSet(S) == {s \in [1..Cardinality(S) -> S] : Range(s) = S}

Count(s, x) == Cardinality({i \in 1..Len(s) : s[i] = x})

\* Spelling of the strings whose characters the program inspects.
Chars ==
  ("" :> <<>>) @@
  ("ls" :> <<"l", "s">>) @@
  ("cd x" :> <<"c", "d", " ", "x">>) @@
  ("vim f" :> <<"v", "i", "m", " ", "f">>) @@
  ("virsh" :> <<"v", "i", "r", "s", "h">>) @@
  ("Dismiss" :> <<"D", "i", "s", "m", "i", "s", "s">>) @@
  ("<fence>\nls\n<fence>" :> <<"<fence>", "\n", "l", "s", "\n", "<fence>">>) @@
  ("cd" :> <<"c", "d">>) @@
  ("vi" :> <<"v", "i">>) @@
  ("vim" :> <<"v", "i", "m">>) @@
  ("emacs" :> <<"e", "m", "a", "c", "s">>) @@
  ("nano" :> <<"n", "a", "n", "o">>) @@
  ("ed" :> <<"e", "d">>) @@
  ("micro" :> <<"m", "i", "c", "r", "o">>) @@
  ("joe" :> <<"j", "o", "e">>) @@
  ("nvim" :> <<"n", "v", "i", "m">>) @@
  ("files" :> <<"f", "i", "l", "e", "s">>) @@
  ("-" :> <<"-">>) @@
  ("-la" :> <<"-", "l", "a">>) @@
  ("--ctx" :> <<"-", "-", "c", "t", "x">>)

\* str.startswith(prefix)
StartsWith(s, p) ==
  LET a == Chars[s]
      b == Chars[p]
  IN  Len(b) <= Len(a) /\ SubSeq(a, 1, Len(b)) = b

\* str.startswith(tuple): true when some member is a prefix
StartsWithAny(s, ps) == \E p \in ps : StartsWith(s, p)

\* ------------------------------------------------------ argument parsing
\* parser.parse_args() for a parser with the flag --ctx and the positional
\* prompt (nargs='*'): a word that looks like an option and is not --ctx is
\* an unrecognized argument, and so is a positional word that follows --ctx
\* after an earlier positional word; both make argparse exit with status 2.
\* Otherwise ctx tells whether --ctx was given and prompt lists the
\* positional words ([] when there are none).
Positions(argv) == {i \in 1..Len(argv) : argv[i] # "--ctx"}

parse_args(argv) ==
  LET pos == Positions(argv)
      unrecognized == \E i \in pos : StartsWith(argv[i], "-")
      split == \E i, j \in pos : \E k \in 1..Len(argv) :
                 i < k /\ k < j /\ k \notin pos
  IN  [error |-> unrecognized \/ split,
       ctx |-> \E i \in 1..Len(argv) : argv[i] = "--ctx",
       prompt |-> SelectSeq(argv, LAMBDA w : w # "--ctx")]

\* The Prompt is either the list args.prompt (kind "list") or the string
\* " ".join(sys.argv[1:]) (kind "str"), kept as the words it was joined
\* from; a line read by input() is a "str" of one word.
ListPrompt(ws) == [kind |-> "list", words |-> ws]
StrPrompt(ws) == [kind |-> "str", words |-> ws]

\* `if prompt:` - a list is true when non-empty, a string when it has a
\* character (no word of ArgWords is empty, so the joined string is empty
\* only when there are no words).
Truthy(prompt) == prompt.words # <<>>

\* ------------------------------------------------------- Response Parser
\* code_parser: the inner content of the first fenced block, or the text
\* unchanged when it has no fenced block.
code_parser(text) ==
  CASE text = M_FENCED_LS -> "{\"command\": \"ls\"}"
    [] text = M_FENCED_TEXT -> "ls"
    [] OTHER -> text

\* json.loads: a dict, another JSON value, or JSONDecodeError.
json_loads(text) ==
  CASE text = "{\"command\": \"ls\"}" ->
         [type |-> "dict", keys |-> {"command"}, command |-> "ls"]
    [] text = "{\"command\": \"\"}" ->
         [type |-> "dict", keys |-> {"command"}, command |-> ""]
    [] text = "{}" ->
         [type |-> "dict", keys |-> {}, command |-> ""]
    [] text = "[\"ls\"]" ->
         [type |-> "list", keys |-> {}, command |-> ""]
    [] OTHER ->
         [type |-> "JSONDecodeError", keys |-> {}, command |-> ""]

\* command_json.get("command", "")
dict_get_command(d) == IF "command" \in d.keys THEN d.command ELSE ""

\* --------------------------------------------------------- get_suggestions
\* One pass of the body of `for msg in response.generations[0]`.  acc is
\* the commands list so far and the exception that left the loop, if any.
ExtractCommand(acc, content) ==
  LET command_json == json_loads(code_parser(content))
  IN  IF acc.raised # "none" THEN acc
      ELSE IF command_json.type = "JSONDecodeError"
        THEN [acc EXCEPT !.commands = Append(@, content)]
      ELSE IF command_json.type # "dict"
        THEN [acc EXCEPT !.raised = "AttributeError"]
      ELSE IF dict_get_command(command_json) # ""
        THEN [acc EXCEPT !.commands = Append(@, dict_get_command(command_json))]
      ELSE acc

RECURSIVE ExtractCommands(_, _)
ExtractCommands(acc, msgs) ==
  IF msgs = <<>> THEN acc
  ELSE ExtractCommands(ExtractCommand(acc, Head(msgs)), Tail(msgs))

\* The lists get_suggestions can return for the messages msgs (one for
\* each order list(set(commands)) can produce), or the exception raised.
get_suggestions(msgs) ==
  LET r == ExtractCommands([raised |-> "none", commands |-> <<>>], msgs)
  IN  [raised |-> r.raised,
       lists |-> IF r.raised = "none" THEN ListsOfSet(Range(r.commands))
                 ELSE {}]

\* ------------------------------------------------------ directory change
\* str.split(" "): the pieces between single spaces.
RECURSIVE SplitSpace(_, _)
SplitSpace(cs, cur) ==
  IF cs = <<>> THEN <<cur>>
  ELSE IF Head(cs) = " " THEN <<cur>> \o SplitSpace(Tail(cs), <<>>)
  ELSE SplitSpace(Tail(cs), Append(cur, Head(cs)))

\* '/'.join(pieces)
RECURSIVE JoinSlash(_)
JoinSlash(ps) ==
  IF ps = <<>> THEN <<>>
  ELSE IF Len(ps) = 1 THEN ps[1]
  ELSE ps[1] \o <<"/">> \o JoinSlash(Tail(ps))

\* os.path.expanduser: a leading ~ becomes the home directory.
expanduser(path) ==
  IF path # <<>> /\ Head(path) = "~" /\ (Len(path) = 1 \/ path[2] = "/")
    THEN <<"$HOME">> \o Tail(path)
    ELSE path

\* os.path.expanduser('/'.join(user_command.split(" ")[1:]))
CdPath(command) == expanduser(JoinSlash(Tail(SplitSpace(Chars[command], <<>>))))

\* ---------------------------------------------------------- Context Manager
\* ContextManager.add_chunk: the captured text joins the buffer.
add_chunk(buffer, text) == Append(buffer, text)

\* ContextManager.get_ctx: the current buffer contents.
get_ctx(buffer) == buffer

\* -------------------------------------------------------------------- state
VARIABLES
  pc,                \* wait point main() is at, or "start" / "exited"
  argv,              \* sys.argv[1:]
  CTX,               \* the CTX setting: the environment's, or 'True' by --ctx
  SHAI_SKIP_CONFIRM, \* os.environ.get("SHAI_SKIP_CONFIRM")
  prompt,            \* the Prompt
  options,           \* the Candidate List of the current round
  selection,         \* value returned by inquirer.select
  user_command,      \* the Command to execute
  context,           \* the Context Buffer
  system_ctx,        \* context embedded in the last system message
  cwd,               \* directory changes made with os.chdir, in order
  exit_code,         \* "running", or the exit status of the process
  usage_shown,       \* the usage hint was printed
  banner_shown,      \* the context-mode warning banner was printed
  exit_notice,       \* "Exiting..." was printed
  warnings,          \* the error texts printed by the except-handler
  echoed,            \* captured outputs printed to the terminal
  llm_calls,         \* calls of chat.generate made
  successes,         \* commands that completed successfully
  last_result,       \* "ok" or the exception of the last execution
  last_branch,       \* branch of lines 208-221 the last execution took
  shown_cwd,         \* working directory shown by the last prompt display
  last_op            \* the step taken last

vars ==
  <<pc, argv, CTX, SHAI_SKIP_CONFIRM, prompt, options, selection,
    user_command, context, system_ctx, cwd, exit_code, usage_shown,
    banner_shown, exit_notice, warnings, echoed, llm_calls, successes,
    last_result, last_branch, shown_cwd, last_op>>

Sentinels == <<OPT_GEN_SUGGESTIONS, OPT_NEW_COMMAND, OPT_DISMISS>>

WaitPoints ==
  {"generate", "select", "new_command", "confirm", "execute", "next_prompt"}

Init ==
  /\ pc = "start"
  /\ argv \in SeqsUpTo(ArgWords, MaxArgs)
  /\ CTX \in CtxEnvValues
  /\ SHAI_SKIP_CONFIRM \in {"true", "false"}
  /\ prompt = StrPrompt(<<>>)
  /\ options = <<>>
  /\ selection = ""
  /\ user_command = ""
  /\ context = <<>>
  /\ system_ctx = <<>>
  /\ cwd = <<>>
  /\ exit_code = "running"
  /\ usage_shown = FALSE
  /\ banner_shown = FALSE
  /\ exit_notice = FALSE
  /\ warnings = <<>>
  /\ echoed = <<>>
  /\ llm_calls = 0
  /\ successes = 0
  /\ last_result = "none"
  /\ last_branch = "none"
  /\ shown_cwd = <<>>
  /\ last_op = "none"

\* ------------------------------------------------------------------ startup
\* Lines 69-80 and 166-169, 228-229: parse the arguments, decide the session
\* mode and the Prompt, then enter the loop or print the usage hint.
Startup ==
  /\ pc = "start"
  /\ last_op' = "startup"
  /\ LET args == parse_args(argv)
     IN  IF args.error
           THEN /\ pc' = "exited"
                /\ exit_code' = "2"
                /\ UNCHANGED <<CTX, prompt, usage_shown, banner_shown>>
           ELSE /\ prompt' = IF args.ctx THEN ListPrompt(args.prompt)
                                         ELSE StrPrompt(argv)
                /\ CTX' = IF args.ctx THEN "True" ELSE CTX
                /\ IF Truthy(prompt')
                     THEN /\ banner_shown' = (CTX' = "True")
                          /\ pc' = "generate"
                          /\ UNCHANGED <<exit_code, usage_shown>>
                     ELSE /\ usage_shown' = TRUE
                          /\ pc' = "exited"
                          /\ exit_code' = "0"
                          /\ UNCHANGED banner_shown
  /\ UNCHANGED <<argv, SHAI_SKIP_CONFIRM, options, selection, user_command,
                 context, system_ctx, cwd, exit_notice, warnings, echoed,
                 llm_calls, successes, last_result,
                 last_branch, shown_cwd>>

\* ------------------------------------------------------ generating (171-174)
\* chat.generate returns msgs; get_suggestions parses them and main appends
\* the three control options.  An exception of the parsing leaves main.
Generate ==
  /\ pc = "generate"
  /\ llm_calls < MaxRounds
  /\ last_op' = "generate"
  /\ llm_calls' = llm_calls + 1
  /\ system_ctx' = get_ctx(context)
  /\ \E msgs \in SeqsUpTo(MsgTexts, MaxMsgs) :
       LET r == get_suggestions(msgs)
       IN  IF r.raised # "none"
             THEN /\ pc' = "exited"
                  /\ exit_code' = "1"
                  /\ UNCHANGED options
             ELSE /\ \E l \in r.lists : options' = l \o Sentinels
                  /\ pc' = "select"
                  /\ UNCHANGED exit_code
  /\ UNCHANGED <<argv, CTX, SHAI_SKIP_CONFIRM, prompt, selection,
                 user_command, context, cwd, usage_shown, banner_shown,
                 exit_notice, warnings, echoed, successes, last_result,
                 last_branch, shown_cwd>>

\* chat.generate raises (LLM-communication failure): nothing catches it.
LLMError ==
  /\ pc = "generate"
  /\ llm_calls < MaxRounds
  /\ last_op' = "llm_error"
  /\ llm_calls' = llm_calls + 1
  /\ system_ctx' = get_ctx(context)
  /\ pc' = "exited"
  /\ exit_code' = "1"
  /\ UNCHANGED <<argv, CTX, SHAI_SKIP_CONFIRM, prompt, options, selection,
                 user_command, context, cwd, usage_shown, banner_shown,
                 exit_notice, warnings, echoed, successes, last_result,
                 last_branch, shown_cwd>>

\* ------------------------------------------------------- selection (189-206)
\* Variant: the exit is caught like an ordinary exception and reported.
Dismiss_swallowed ==
  /\ warnings' = Append(warnings, "0")
  /\ pc' = "generate"
  /\ UNCHANGED exit_code

\* sys.exit(0) raises SystemExit, which neither `except Exception` nor
\* `except KeyboardInterrupt` catches: the process ends with status 0.
Dismiss ==
  /\ pc' = "exited"
  /\ exit_code' = "0"
  /\ UNCHANGED warnings

\* elif selection == OPT_NEW_COMMAND: the free-text prompt is read next.
EnterNewCommand ==
  /\ pc' = "new_command"
  /\ UNCHANGED <<exit_code, warnings, user_command>>

\* Variant: the option starts a new round without reading a prompt.
Regenerate_asksPrompt ==
  /\ pc' = "new_command"
  /\ UNCHANGED <<exit_code, warnings, user_command>>

\* elif selection == OPT_GEN_SUGGESTIONS: continue   (199-200)
Regenerate ==
  /\ pc' = "generate"
  /\ UNCHANGED <<exit_code, warnings, user_command>>

Select ==
  /\ pc = "select"
  /\ last_op' = "select"
  /\ \E i \in 1..Len(options) :
       /\ selection' = options[i]
       /\ IF selection' = OPT_DISMISS
            THEN Dismiss /\ UNCHANGED user_command
          ELSE IF selection' = OPT_NEW_COMMAND
            THEN EnterNewCommand
          ELSE IF selection' = OPT_GEN_SUGGESTIONS
            THEN Regenerate
          ELSE IF SHAI_SKIP_CONFIRM # "true"
            THEN /\ pc' = "confirm"
                 /\ UNCHANGED <<exit_code, warnings, user_command>>
          ELSE /\ user_command' = selection'
               /\ pc' = "execute"
               /\ UNCHANGED <<exit_code, warnings>>
  /\ UNCHANGED <<argv, CTX, SHAI_SKIP_CONFIRM, prompt, options, context,
                 system_ctx, cwd, usage_shown, banner_shown, exit_notice,
                 echoed, llm_calls, successes, last_result,
                 last_branch, shown_cwd>>

\* Variant: the line read is dropped and the Prompt stays as it was.
NewCommand_keepsPrompt ==
  /\ pc = "new_command"
  /\ last_op' = "new_command"
  /\ \E line \in PromptInputs : prompt' = prompt
  /\ pc' = "generate"
  /\ UNCHANGED <<argv, CTX, SHAI_SKIP_CONFIRM, options, selection,
                 user_command, context, system_ctx, cwd, exit_code,
                 usage_shown, banner_shown, exit_notice, warnings, echoed,
                 llm_calls, successes, last_result,
                 last_branch, shown_cwd>>

\* prompt = input("New command: "); continue   (197-198)
NewCommand ==
  /\ pc = "new_command"
  /\ last_op' = "new_command"
  /\ \E line \in PromptInputs : prompt' = StrPrompt(<<line>>)
  /\ pc' = "generate"
  /\ UNCHANGED <<argv, CTX, SHAI_SKIP_CONFIRM, options, selection,
                 user_command, context, system_ctx, cwd, exit_code,
                 usage_shown, banner_shown, exit_notice, warnings, echoed,
                 llm_calls, successes, last_result,
                 last_branch, shown_cwd>>

\* user_command = inquirer.text("Confirm:", default=selection).execute()
Confirm ==
  /\ pc = "confirm"
  /\ last_op' = "confirm"
  /\ \E text \in {selection} \cup ConfirmTexts : user_command' = text
  /\ pc' = "execute"
  /\ UNCHANGED <<argv, CTX, SHAI_SKIP_CONFIRM, prompt, options, selection,
                 context, system_ctx, cwd, exit_code, usage_shown,
                 banner_shown, exit_notice, warnings, echoed, llm_calls,
                 successes, last_result,
                 last_branch, shown_cwd>>

\* ------------------------------------------------------- execution (207-224)
\* The branch of the if/elif chain at lines 208-217 that handles command.
ExecBranch(ctx, command) ==
  IF ctx = "False" THEN "run"
  ELSE IF StartsWithAny(command, TEXT_EDITORS) THEN "editor"
  ELSE IF StartsWith(command, "cd") THEN "chdir"
  ELSE "capture"

\* What the environment can answer: "ok", or the exception raised by
\* subprocess.run(check=True) or by os.chdir (which fails on an empty path).
Results(branch, command) ==
  IF branch = "chdir"
    THEN {"FileNotFoundError"} \cup
         (IF CdPath(command) # <<>> THEN {"ok"} ELSE {})
    ELSE {"ok"} \cup RunErrors

\* Variant: in context mode the handler falls through to line 222.
ExceptException_asksPrompt(e) ==
  /\ warnings' = Append(warnings, e)
  /\ pc' = IF CTX = "False" THEN "generate" ELSE "next_prompt"
  /\ UNCHANGED exit_code

\* Variant: in non-context mode the handler leaves the loop.
ExceptException_endsSingleShot(e) ==
  /\ warnings' = Append(warnings, e)
  /\ pc' = IF CTX = "False" THEN "exited" ELSE "generate"
  /\ exit_code' = IF CTX = "False" THEN "0" ELSE exit_code

\* Variant: the exception is not caught and ends the process.
ExceptException_propagates(e) ==
  /\ pc' = "exited"
  /\ exit_code' = "1"
  /\ UNCHANGED warnings

\* except Exception as e: print(f"... Error ... executing command: {e}"),
\* after which the while-loop starts its next iteration at line 171.
ExceptException(e) ==
  /\ warnings' = Append(warnings, e)
  /\ pc' = "generate"
  /\ UNCHANGED exit_code

\* Variant: no break, the loop goes on with the next round.
BreakLoop_continues ==
  /\ pc' = "generate"
  /\ UNCHANGED <<exit_code, warnings>>

\* break (line 210): the loop is left, main returns, the process ends.
BreakLoop ==
  /\ pc' = "exited"
  /\ exit_code' = "0"
  /\ UNCHANGED warnings

\* Variant: the branches act on the menu selection, not on the confirmed text.
CommandToRun_selection == selection

\* The command the execution branches act on (lines 209, 212-218).
CommandToRun == user_command

\* Variant: the editor's run is fed into the Context Buffer.
RunEditor_feedsContext ==
  /\ context' = add_chunk(context, "")
  /\ UNCHANGED <<cwd, echoed>>

\* elif user_command.startswith(TEXT_EDITORS): subprocess.run without
\* capture_output   (212-213)
RunEditor ==
  UNCHANGED <<context, cwd, echoed>>

\* elif user_command.startswith("cd"): os.chdir(path)   (214-216)
ChangeDirectory(command) ==
  /\ cwd' = Append(cwd, CdPath(command))
  /\ UNCHANGED <<context, echoed>>

\* Variant: the captured text is printed even when it is empty.
CaptureOutput_echoesAlways(out) ==
  /\ echoed' = Append(echoed, out)
  /\ context' = add_chunk(context, out)
  /\ UNCHANGED cwd

\* else: run with capture_output, print the text when it is not empty,
\* ContextManager.add_chunk(result)   (217-221)
CaptureOutput(out) ==
  /\ echoed' = IF out # "" THEN Append(echoed, out) ELSE echoed
  /\ context' = add_chunk(context, out)
  /\ UNCHANGED cwd

\* Variant: the prompt display shows the directory from before the branch.
AskNextPrompt_staleCwd ==
  /\ pc' = "next_prompt"
  /\ shown_cwd' = cwd

\* input(f">>> {os.getcwd()}\nNew command: "): the prompt display is built
\* after the branch has run, so it shows the directory as it is then (222).
AskNextPrompt ==
  /\ pc' = "next_prompt"
  /\ shown_cwd' = cwd'

Execute ==
  /\ pc = "execute"
  /\ last_op' = "execute"
  /\ LET command == CommandToRun
         branch == ExecBranch(CTX, command)
     IN  \E res \in Results(branch, command), out \in Outputs :
           /\ last_result' = res
           /\ last_branch' = branch
           /\ successes' = IF res = "ok" THEN successes + 1 ELSE successes
           /\ IF res # "ok"
                THEN /\ ExceptException(res)
                     /\ UNCHANGED <<context, cwd, echoed, shown_cwd>>
              ELSE IF branch = "run"
                THEN /\ BreakLoop
                     /\ UNCHANGED <<context, cwd, echoed, shown_cwd>>
              ELSE /\ IF branch = "editor" THEN RunEditor
                      ELSE IF branch = "chdir" THEN ChangeDirectory(command)
                      ELSE CaptureOutput(out)
                   /\ AskNextPrompt
                   /\ UNCHANGED <<exit_code, warnings>>
  /\ UNCHANGED <<argv, CTX, SHAI_SKIP_CONFIRM, prompt, options, selection,
                 user_command, system_ctx, usage_shown, banner_shown,
                 exit_notice, llm_calls>>

\* prompt = input(f">>> {os.getcwd()}\nNew command: ")   (222)
NextPrompt ==
  /\ pc = "next_prompt"
  /\ last_op' = "next_prompt"
  /\ \E line \in PromptInputs : prompt' = StrPrompt(<<line>>)
  /\ pc' = "generate"
  /\ UNCHANGED <<argv, CTX, SHAI_SKIP_CONFIRM, options, selection,
                 user_command, context, system_ctx, cwd, exit_code,
                 usage_shown, banner_shown, exit_notice, warnings, echoed,
                 llm_calls, successes, last_result,
                 last_branch, shown_cwd>>

\* ---------------------------------------------------------------- interrupt
\* KeyboardInterrupt at a wait point.  Lines 189-224 are inside
\* `try: ... except KeyboardInterrupt` (225-227) and `except Exception`
\* does not catch it; line 171 is outside that try, so an interrupt during
\* chat.generate leaves main uncaught and Python ends with status 130.
Interrupt ==
  /\ pc \in WaitPoints
  /\ last_op' = "interrupt"
  /\ pc' = "exited"
  /\ IF pc = "generate"
       THEN /\ exit_code' = "130"
            /\ UNCHANGED exit_notice
       ELSE /\ exit_notice' = TRUE
            /\ exit_code' = "0"
  /\ UNCHANGED <<argv, CTX, SHAI_SKIP_CONFIRM, prompt, options, selection,
                 user_command, context, system_ctx, cwd, usage_shown,
                 banner_shown, warnings, echoed, llm_calls, successes,
                 last_result, last_branch, shown_cwd>>

Next ==
  \/ Startup
  \/ Generate
  \/ LLMError
  \/ Select
  \/ NewCommand
  \/ Confirm
  \/ Execute
  \/ NextPrompt
  \/ Interrupt

Spec == Init /\ [][Next]_vars

TypeOK ==
  /\ pc \in WaitPoints \cup {"start", "exited"}
  /\ exit_code \in {"running", "0", "1", "2", "130"}
  /\ (pc = "exited") = (exit_code # "running")
  /\ llm_calls \in 0..MaxRounds
  /\ user_command \in DOMAIN Chars

\* =================================================================== claims
\* The Suggestions of the current Candidate List: what get_suggestions
\* returned, before the control options were appended.
Suggestions == SubSeq(options, 1, Len(options) - 3)

\* A step of Execute in which the command failed.
ExecFailed == pc = "execute" /\ last_op' = "execute" /\ last_result' # "ok"

\* C1: the Candidate List handed to the selector ends with Regenerate,
\* EnterNewCommand, Dismiss in that order and holds each of them exactly once.
C1_SentinelsLastExactlyOnce ==
  pc = "select" =>
    /\ Len(options) >= 3
    /\ SubSeq(options, Len(options) - 2, Len(options)) = Sentinels
    /\ \A i \in 1..3 : Count(options, Sentinels[i]) = 1

\* C2: the command list returned by get_suggestions has no duplicate and no
\* empty string.
C2_NoDuplicateNoEmpty ==
  pc = "select" =>
    /\ \A i, j \in 1..Len(Suggestions) :
         i # j => Suggestions[i] # Suggestions[j]
    /\ \A i \in 1..Len(Suggestions) : Suggestions[i] # ""

\* C3: an interrupt at any wait point ends the process with exit status 0
\* after the exit notice was printed.
C3_InterruptExitsCleanly ==
  last_op = "interrupt" =>
    pc = "exited" /\ exit_code = "0" /\ exit_notice

\* C4 (as claimed): in context mode a failed command is reported and the next
\* step is the request for a new free-text prompt.
C4_FailureAsksPrompt ==
  [][(ExecFailed /\ CTX # "False") =>
       (Len(warnings') = Len(warnings) + 1 /\ pc' = "next_prompt")]_vars

\* C4 (amended): in context mode a failed command is reported and the loop
\* goes straight to a new LLM call with the unchanged Prompt; no free-text
\* prompt is requested in between.
C4_FailureRegenerates ==
  [][/\ (ExecFailed /\ CTX # "False") =>
          /\ warnings' = Append(warnings, last_result')
          /\ pc' = "generate"
          /\ prompt' = prompt
     /\ (pc = "generate" /\ CTX # "False" /\ last_result # "ok"
           /\ last_op = "execute") =>
          last_op' \in {"generate", "llm_error", "interrupt"}]_vars

C4_Witness ==
  /\ CTX # "False"
  /\ last_result = "FileNotFoundError"
  /\ last_op = "generate"
  /\ pc = "select"
  /\ Len(warnings) = 1

\* C5 (as claimed): in non-context mode a failed command is reported and the
\* loop terminates.
C5_FailureTerminates ==
  [][(ExecFailed /\ CTX = "False") =>
       (Len(warnings') = Len(warnings) + 1 /\ pc' = "exited")]_vars

\* C5 (amended): in non-context mode a failed command is reported and the
\* loop does not terminate: the process keeps running and the next round
\* starts with the unchanged Prompt.
C5_FailureContinues ==
  [][(ExecFailed /\ CTX = "False") =>
       /\ warnings' = Append(warnings, last_result')
       /\ exit_code' = "running"
       /\ pc' = "generate"
       /\ prompt' = prompt
       /\ successes' = successes]_vars

C5_Witness ==
  /\ CTX = "False"
  /\ last_result \in RunErrors
  /\ Len(warnings) = 1
  /\ llm_calls = 2
  /\ pc = "select"

\* C6: in both modes a failed shell command never ends the process: exactly
\* one warning with the error text is printed and the loop is still running.
C6_FailureIsOneWarning ==
  [][(ExecFailed /\ last_result' \in RunErrors) =>
       /\ warnings' = Append(warnings, last_result')
       /\ exit_code' = "running"
       /\ pc' \in WaitPoints]_vars

C6_Witness ==
  /\ last_op = "execute"
  /\ last_result = "OSError"
  /\ warnings = <<"OSError">>
  /\ exit_code = "running"

\* C7: in non-context mode a successful command ends the loop: nothing
\* follows it, at most one command succeeds, and nothing is captured.
C7_SingleShot ==
  (CTX = "False" /\ successes > 0) =>
    /\ pc = "exited"
    /\ exit_code = "0"
    /\ last_op = "execute"
    /\ successes = 1
    /\ context = <<>>
    /\ echoed = <<>>

C7_Witness ==
  /\ CTX = "False"
  /\ successes = 1
  /\ last_result = "ok"
  /\ pc = "exited"

\* C8: selecting Dismiss ends the process at once with exit code 0, without a
\* warning, and nothing happens afterwards.
C8_DismissExits ==
  [][/\ (pc = "select" /\ last_op' = "select" /\ selection' = OPT_DISMISS) =>
          /\ pc' = "exited"
          /\ exit_code' = "0"
          /\ warnings' = warnings
          /\ ~exit_notice'
     /\ (last_op = "select" /\ selection = OPT_DISMISS) => FALSE]_vars

C8_Witness ==
  /\ last_op = "select"
  /\ selection = OPT_DISMISS
  /\ pc = "exited"
  /\ exit_code = "0"

\* The words of the command line that are prompt text.
PromptWords == SelectSeq(argv, LAMBDA w : w # "--ctx")

\* C9: without prompt text the program prints the usage hint and ends with
\* exit code 0, never entering the loop; with prompt text it enters the loop.
C9_UsageOrLoop ==
  pc # "start" =>
    IF PromptWords = <<>>
      THEN /\ usage_shown
           /\ pc = "exited"
           /\ exit_code = "0"
           /\ llm_calls = 0
           /\ options = <<>>
      ELSE /\ ~usage_shown
           /\ last_op = "startup" => pc = "generate"

\* C10: whatever the returned messages contain, the round reaches the
\* selection menu.
C10_MessagesNeverAbortRound ==
  last_op = "generate" => pc = "select"

\* A step of Execute, and one in which the command succeeded.
ExecStep == pc = "execute" /\ last_op' = "execute"
ExecOk == ExecStep /\ last_result' = "ok"

\* A step of Select that returns v.
Selects(v) == pc = "select" /\ last_op' = "select" /\ selection' = v

\* The tests of lines 212 and 214 on the Command.
LooksLikeEditor(command) == StartsWithAny(command, TEXT_EDITORS)
LooksLikeCd(command) == StartsWith(command, "cd")

\* C11: after a concrete Suggestion is selected, the command that is handled
\* is the text the confirmation returned, or the selection itself when
\* confirmation is skipped (then no confirmation is shown); nothing else is
\* ever executed.
C11_ExecutesConfirmedText ==
  [][/\ (pc = "select" /\ last_op' = "select"
           /\ selection' \notin Range(Sentinels)) =>
          IF SHAI_SKIP_CONFIRM = "true"
            THEN pc' = "execute" /\ user_command' = selection'
            ELSE pc' = "confirm"
     /\ (pc = "confirm" /\ last_op' = "confirm") => pc' = "execute"
     /\ ExecStep =>
          /\ last_op \in {"select", "confirm"}
          /\ (last_op = "select") = (SHAI_SKIP_CONFIRM = "true")
          /\ last_op = "select" => user_command = selection
          /\ last_branch' = ExecBranch(CTX, user_command)
          /\ (last_result' = "ok" /\ last_branch' = "chdir") =>
               cwd' = Append(cwd, CdPath(user_command))]_vars

C11_Witness ==
  /\ last_op = "execute"
  /\ SHAI_SKIP_CONFIRM # "true"
  /\ selection = "ls"
  /\ user_command = "vim f"
  /\ last_branch = "editor"

\* C12: Regenerate executes nothing and leaves the Prompt, the working
\* directory and the Context Buffer unchanged; the next step is a new LLM
\* call with the same Prompt, which builds a new Candidate List.
C12_RegenerateKeepsState ==
  [][/\ Selects(OPT_GEN_SUGGESTIONS) =>
          /\ pc' = "generate"
          /\ UNCHANGED <<prompt, cwd, context, successes, warnings, echoed,
                         last_result, last_branch, user_command>>
     /\ (pc = "generate" /\ last_op = "select") =>
          /\ last_op' \in {"generate", "llm_error", "interrupt"}
          /\ prompt' = prompt
          /\ last_op' # "interrupt" => llm_calls' = llm_calls + 1
          /\ pc' = "select" =>
               SubSeq(options', Len(options') - 2, Len(options')) = Sentinels
    ]_vars

C12_Witness ==
  /\ selection = OPT_GEN_SUGGESTIONS
  /\ last_op = "generate"
  /\ llm_calls = 2
  /\ pc = "select"
  /\ successes = 0

\* C13: EnterNewCommand reads one line, makes it the Prompt and goes back to
\* generating, without executing or confirming anything and without touching
\* the Context Buffer.
C13_NewCommandReplacesPrompt ==
  [][/\ Selects(OPT_NEW_COMMAND) =>
          /\ pc' = "new_command"
          /\ UNCHANGED <<prompt, cwd, context, successes, warnings,
                         last_result, last_branch, user_command, llm_calls>>
     /\ (pc = "new_command" /\ last_op' # "interrupt") =>
          /\ last_op' = "new_command"
          /\ prompt' \in {StrPrompt(<<line>>) : line \in PromptInputs}
          /\ pc' = "generate"
          /\ UNCHANGED <<cwd, context, successes, warnings, last_result,
                         last_branch, user_command, llm_calls>>]_vars

C13_Witness ==
  /\ last_op = "new_command"
  /\ selection = OPT_NEW_COMMAND
  /\ prompt = StrPrompt(<<"files">>)
  /\ pc = "generate"
  /\ successes = 0

C15_CdChangesDirectory ==
  [][(ExecOk /\ CTX # "False" /\ LooksLikeCd(user_command)) =>
       /\ last_branch' = "chdir"
       /\ cwd' = Append(cwd, CdPath(user_command))
       /\ context' = context
       /\ echoed' = echoed
       /\ pc' = "next_prompt"
       /\ shown_cwd' = cwd']_vars

C15_Witness ==
  /\ last_op = "execute"
  /\ user_command = "cd x"
  /\ last_result = "ok"
  /\ cwd = << <<"x">> >>
  /\ shown_cwd = cwd
  /\ context = <<>>
  /\ pc = "next_prompt"

\* C16: the Context Buffer is read only when a round's prompt is built and
\* changes only when that round's command succeeded with output capture;
\* every other step leaves it unchanged.
C16_ContextReadAndWritten ==
  [][/\ context' # context =>
          (ExecOk /\ CTX # "False" /\ last_branch' = "capture")
     /\ system_ctx' # system_ctx =>
          (pc = "generate" /\ last_op' \in {"generate", "llm_error"})
     /\ last_op' \in {"generate", "llm_error"} =>
          system_ctx' = get_ctx(context)]_vars

C16_Witness ==
  /\ context = <<"out">>
  /\ system_ctx = <<"out">>
  /\ last_op = "execute"
  /\ last_branch = "editor"
  /\ last_result = "ok"

\* C17: in context mode every successfully handled command is followed by
\* one request for the next task, which replaces the Prompt and leads back to
\* generating; the session ends only by Dismiss, an interrupt or an LLM
\* failure.
C17_ContextSessionContinues ==
  [][/\ (ExecOk /\ CTX # "False") =>
          (pc' = "next_prompt" /\ exit_code' = "running")
     /\ (pc = "next_prompt" /\ last_op' # "interrupt") =>
          /\ last_op' = "next_prompt"
          /\ prompt' \in {StrPrompt(<<line>>) : line \in PromptInputs}
          /\ pc' = "generate"
     /\ (CTX # "False" /\ pc \in WaitPoints /\ pc' = "exited") =>
          \/ last_op' = "select" /\ selection' = OPT_DISMISS
          \/ last_op' \in {"interrupt", "llm_error"}]_vars

\* C18: selecting a Suggestion of the model always leads to the confirmation
\* or execution of that Suggestion, never to a control action.
C18_SuggestionNeverControl ==
  [][(pc = "select" /\ last_op' = "select"
        /\ selection' \in Range(Suggestions)) =>
       pc' \in {"confirm", "execute"}]_vars

\* C19: the loop takes the context-mode branches exactly when the
\* context-mode warning banner was shown at startup.
C19_BranchesMatchBanner ==
  last_branch # "none" => ((last_branch # "run") <=> banner_shown)

\* The first word of the Command.
FirstWord(command) == SplitSpace(Chars[command], <<>>)[1]

\* C20: in context mode a Command whose first word is neither cd nor a known
\* editor name is run in a shell with its output captured and added to the
\* Context Buffer.
C20_BranchByFirstWord ==
  [][(ExecStep /\ CTX # "False"
        /\ FirstWord(user_command) \notin
             {Chars[p] : p \in TEXT_EDITORS \cup {"cd"}}) =>
       /\ last_branch' = "capture"
       /\ last_result' = "ok" =>
            \E out \in Outputs : context' = add_chunk(context, out)]_vars

====
